---------------------------- MODULE Spec2Model ----------------------------
(***************************************************************************)
(* Model of the configuration export engine (config-request.c): the type   *)
(* formatter config_export_type, the tree walker settings_export, and the  *)
(* export context life cycle (init, attach, export one/all, free).         *)
(*                                                                         *)
(* C strings are sequences of one-character strings.  A NULL char pointer  *)
(* is the one-element sequence NULL, which no string equals.               *)
(***************************************************************************)
EXTENDS Integers, Sequences, FiniteSets, TLC

VARIABLES
    handle,          \* the caller's struct config_export_context *: "NULL" or "ctx"
    ctx,             \* the context object's fields
    freed,           \* how many times the context's pool has been released
    crashed,         \* a NULL context was dereferenced (the process is gone)
    parsers,         \* the caller's module parser list (schema, values, changes, error)
    section_idx,     \* the caller's unsigned int section_idx variable
    pass,            \* how many times the caller has re-seeded section_idx
    calls,           \* history: one record per config_export_parser() call
    ret,             \* the last return value of an API call
    op,              \* the last API function called
    tin,             \* type formatter harness: the input of config_export_type
    tout             \* type formatter harness: its output

vars ==
    <<handle, ctx, freed, crashed, parsers, section_idx, pass, calls, ret, op, tin, tout>>

-----------------------------------------------------------------------------
(* Bounds of the model *)

MaxItems == 3
MaxSvc == 2
MaxCalls == 2
MaxPasses == 2
MaxEnumLen == 2
MaxSizeShift == 6
MaxTimeCount == 60
MaxMsecSeconds == 2000000

-----------------------------------------------------------------------------
(* Text *)

NULL == <<"NULL">>
NUL == "NUL"
SETTINGS_SEPARATOR == "/"
SETTING_STRVAR_UNEXPANDED == <<"0">>

strlen(s) == Len(s)

\* s[i] of a C string, 0-based; the terminating NUL is at index strlen(s)
CharAt(s, i) == IF i < Len(s) THEN s[i + 1] ELSE NUL

\* null_strcmp() of lib/strfuncs: 0 when equal (two NULLs are equal)
null_strcmp(a, b) == IF a = b THEN 0 ELSE 1

RECURSIVE strncmp_from(_, _, _, _)
strncmp_from(a, b, i, n) ==
    IF i >= n THEN 0
    ELSE IF CharAt(a, i) # CharAt(b, i) THEN 1
    ELSE IF CharAt(a, i) = NUL THEN 0
    ELSE strncmp_from(a, b, i + 1, n)

\* strncmp(a, b, n): 0 when the first n characters (up to a NUL) agree
strncmp(a, b, n) == strncmp_from(a, b, 0, n)

\* the value of F at v, with v evaluated once
Bind(v, F(_)) == CHOOSE r \in {F(x) : x \in {v}} : TRUE

DigitChar(d) == <<"0", "1", "2", "3", "4", "5", "6", "7", "8", "9">>[d + 1]

RECURSIVE Digits(_, _)
Digits(n, base) ==
    IF n < base THEN <<DigitChar(n)>>
    ELSE Digits(n \div base, base) \o <<DigitChar(n % base)>>

\* printf "%u"
FmtU(n) == Digits(n, 10)
\* printf "0%o"
FmtOct(n) == <<"0">> \o Digits(n, 8)

-----------------------------------------------------------------------------
(* config_export_size / config_export_time / config_export_time_msecs *)

suffixes == <<"B", "k", "M", "G", "T">>

\* A uoff_t is 64 bits wide: it is held as its base-1024 digits, the least
\* significant first and without leading zero digits, so 0 is <<>>.
RECURSIVE Limbs(_)
Limbs(n) == IF n = 0 THEN <<>> ELSE <<n % 1024>> \o Limbs(n \div 1024)

\* size % 1024 and size / 1024
LimbsMod1024(size) == IF size = <<>> THEN 0 ELSE Head(size)
LimbsDiv1024(size) == IF size = <<>> THEN <<>> ELSE Tail(size)

\* size / 10 and size % 10, by long division from the most significant digit
RECURSIVE LimbsDivMod10(_)
LimbsDivMod10(size) ==
    IF size = <<>> THEN [q |-> <<>>, r |-> 0]
    ELSE Bind(LimbsDivMod10(Tail(size)),
              LAMBDA hi :
                  Bind(hi.r * 1024 + Head(size),
                       LAMBDA cur :
                           [q |-> IF hi.q = <<>> /\ cur \div 10 = 0 THEN <<>>
                                  ELSE <<cur \div 10>> \o hi.q,
                            r |-> cur % 10]))

\* printf "%llu" of a uoff_t
RECURSIVE FmtLimbs(_)
FmtLimbs(size) ==
    Bind(LimbsDivMod10(size),
         LAMBDA d : IF d.q = <<>> THEN <<DigitChar(d.r)>>
                    ELSE FmtLimbs(d.q) \o <<DigitChar(d.r)>>)

size_loop_once(size, i) ==
    IF LimbsMod1024(size) = 0
    THEN [size |-> LimbsDiv1024(size), suffix |-> suffixes[i + 1]]
    ELSE [size |-> size, suffix |-> suffixes[i]]

RECURSIVE size_loop(_, _)
size_loop(size, i) ==
    IF i < Len(suffixes) /\ LimbsMod1024(size) = 0
    THEN size_loop(LimbsDiv1024(size), i + 1)
    ELSE [size |-> size, suffix |-> suffixes[i]]

config_export_size(size) ==
    IF size = <<>> THEN <<"0">>
    ELSE Bind(size_loop(size, 1),
              LAMBDA r : FmtLimbs(r.size) \o <<" ", r.suffix>>)

config_export_time(stamp) ==
    IF stamp = 0 THEN <<"0">>
    ELSE IF stamp % 60 # 0 THEN FmtU(stamp) \o <<" ", "s", "e", "c", "s">>
    ELSE IF (stamp \div 60) % 60 # 0
         THEN FmtU(stamp \div 60) \o <<" ", "m", "i", "n", "s">>
    ELSE IF (stamp \div 3600) % 24 # 0
         THEN FmtU(stamp \div 3600) \o <<" ", "h", "o", "u", "r", "s">>
    ELSE IF (stamp \div 86400) % 7 # 0
         THEN FmtU(stamp \div 86400) \o <<" ", "d", "a", "y", "s">>
    ELSE FmtU(stamp \div 604800) \o <<" ", "w", "e", "e", "k", "s">>

config_export_time_msecs(stamp_msecs) ==
    IF stamp_msecs % 1000 = 0 THEN config_export_time(stamp_msecs \div 1000)
    ELSE FmtU(stamp_msecs) \o <<" ", "m", "s">>

-----------------------------------------------------------------------------
(* Values.  One record shape for every setting type, so that any two      *)
(* values can be compared: b for SET_BOOL, n for the numeric types, s for  *)
(* the char pointers, created/l for the arrays.                            *)

VBool(b) == [b |-> b, n |-> 0, s |-> NULL, created |-> FALSE, l |-> <<>>]
VNum(n) == [b |-> FALSE, n |-> n, s |-> NULL, created |-> FALSE, l |-> <<>>]
VSize(n) == [b |-> FALSE, n |-> 0, s |-> NULL, created |-> FALSE, l |-> Limbs(n)]
VStr(s) == [b |-> FALSE, n |-> 0, s |-> s, created |-> FALSE, l |-> <<>>]
VArr(l) == [b |-> FALSE, n |-> 0, s |-> NULL, created |-> TRUE, l |-> l]
VNoArr == [b |-> FALSE, n |-> 0, s |-> NULL, created |-> FALSE, l |-> <<>>]

\* a const void * to a field: NULL, or the field it points at
PtrNull == [null |-> TRUE, v |-> VNoArr]
PtrTo(v) == [null |-> FALSE, v |-> v]

ScalarTypes ==
    {"SET_BOOL", "SET_SIZE", "SET_UINT", "SET_UINT_OCT", "SET_TIME",
     "SET_TIME_MSECS", "SET_IN_PORT", "SET_STR_VARS", "SET_STR", "SET_ENUM"}

-----------------------------------------------------------------------------
(* config_export_type: what it appends to str, whether it set *dump_r,    *)
(* whether it returned TRUE, and whether an i_assert() failed.             *)

TypeResult(str, dump, ok, panic) ==
    [str |-> str, dump |-> dump, ok |-> ok, panic |-> panic]

\* the SET_ENUM test of an unforced value against its default
EnumDiffers(val, dval) ==
    LET len == strlen(val)
    IN  \/ strncmp(val, dval, len) # 0
        \/ (CharAt(val, len) # ":" /\ CharAt(val, len) # NUL)

\* the test shared by SET_BOOL, SET_SIZE, SET_UINT.., SET_IN_PORT
NumDumpedNoNull(dump_default, default_value, differs) ==
    dump_default \/ differs
NumDumped(dump_default, default_value, differs) ==
    dump_default \/ default_value.null \/ differs

\* the test of SET_STR and SET_STR_VARS
StrDumped(dump_default, sval, dval) ==
    (dump_default \/ null_strcmp(sval, dval) # 0) /\ sval # NULL

config_export_type(value, default_value, type, dump_default) ==
    LET dv == default_value.v
        none == TypeResult(<<>>, FALSE, TRUE, FALSE)
    IN
    CASE type = "SET_BOOL" ->
           IF NumDumped(dump_default, default_value, value.b # dv.b)
           THEN TypeResult(IF value.b THEN <<"y", "e", "s">> ELSE <<"n", "o">>,
                           FALSE, TRUE, FALSE)
           ELSE none
      [] type = "SET_SIZE" ->
           IF NumDumped(dump_default, default_value, value.l # dv.l)
           THEN TypeResult(config_export_size(value.l), FALSE, TRUE, FALSE)
           ELSE none
      [] type \in {"SET_UINT", "SET_UINT_OCT", "SET_TIME", "SET_TIME_MSECS"} ->
           IF NumDumped(dump_default, default_value, value.n # dv.n)
           THEN TypeResult(
                  CASE type = "SET_UINT_OCT" -> FmtOct(value.n)
                    [] type = "SET_TIME" -> config_export_time(value.n)
                    [] type = "SET_TIME_MSECS" -> config_export_time_msecs(value.n)
                    [] OTHER -> FmtU(value.n),
                  FALSE, TRUE, FALSE)
           ELSE none
      [] type = "SET_IN_PORT" ->
           IF NumDumped(dump_default, default_value, value.n # dv.n)
           THEN TypeResult(FmtU(value.n), FALSE, TRUE, FALSE)
           ELSE none
      [] type = "SET_STR_VARS" ->
           LET dval == IF default_value.null THEN NULL ELSE dv.s
           IN  IF value.s # NULL /\ SubSeq(value.s, 1, 1) # SETTING_STRVAR_UNEXPANDED
               THEN TypeResult(<<>>, FALSE, FALSE, TRUE)
               ELSE LET sval == IF value.s = NULL THEN NULL ELSE Tail(value.s)
                    IN  IF StrDumped(dump_default, sval, dval)
                        THEN TypeResult(sval, TRUE, TRUE, FALSE)
                        ELSE none
      [] type = "SET_STR" ->
           LET dval == IF default_value.null THEN NULL ELSE dv.s
           IN  IF StrDumped(dump_default, value.s, dval)
               THEN TypeResult(value.s, TRUE, TRUE, FALSE)
               ELSE none
      [] type = "SET_ENUM" ->
           IF dump_default THEN TypeResult(value.s, FALSE, TRUE, FALSE)
           ELSE LET dval == IF default_value.null THEN NULL ELSE dv.s
                IN  IF dval = NULL THEN TypeResult(<<>>, FALSE, FALSE, TRUE)
                    ELSE IF EnumDiffers(value.s, dval)
                         THEN TypeResult(value.s, FALSE, TRUE, FALSE)
                         ELSE none
      [] OTHER -> TypeResult(<<>>, FALSE, FALSE, FALSE)

-----------------------------------------------------------------------------
(* Schemas (struct setting_parser_info / struct setting_define).  A define *)
(* is [key, type, offset, flags, list_info]; an info is [defines,          *)
(* has_defaults, defaults, type_offset1].  A settings struct is the        *)
(* sequence of its fields' values, the field at offset o being set[o + 1]; *)
(* a change struct is the parallel sequence of [ch, l]: the change byte of *)
(* a field and, for a list field, the change structs of its elements.      *)

Def(key, type, offset, flags, list_info) ==
    [key |-> key, type |-> type, offset |-> offset, flags |-> flags,
     list_info |-> list_info]

Chg(ch) == [ch |-> ch, l |-> <<>>]
ChgArr(l) == [ch |-> 0, l |-> l]

\* struct service_settings-like element of a uniquely named list
InfoSvc ==
    [defines |-> << Def(<<"n", "a", "m", "e">>, "SET_STR", 0, {}, "none"),
                    Def(<<"v">>, "SET_STR_VARS", 1, {}, "none"),
                    Def(<<"c">>, "SET_UINT", 2, {}, "none"),
                    Def(<<"m">>, "SET_ENUM", 3, {}, "none") >>,
     has_defaults |-> TRUE,
     defaults |-> << VStr(<<>>), VStr(<<>>), VNum(1), VStr(<<"a", ":", "b">>) >>,
     type_offset1 |-> 1]

\* element of the innermost list
InfoSub ==
    [defines |-> << Def(<<"y">>, "SET_SIZE", 0, {}, "none") >>,
     has_defaults |-> TRUE,
     defaults |-> << VSize(0) >>,
     type_offset1 |-> 0]

\* element of an indexed list, holding a list of its own
InfoItem ==
    [defines |-> << Def(<<"x">>, "SET_BOOL", 0, {}, "none"),
                    Def(<<"s", "u", "b">>, "SET_DEFLIST", 1, {}, "InfoSub"),
                    Def(<<"p">>, "SET_STRLIST", 2, {}, "none") >>,
     has_defaults |-> TRUE,
     defaults |-> << VBool(FALSE), VNoArr, VNoArr >>,
     type_offset1 |-> 0]

\* a root with a defaults struct
InfoMain ==
    [defines |-> << Def(<<"s">>, "SET_STR", 0, {}, "none"),
                    Def(<<"h">>, "SET_UINT", 1, {"SET_FLAG_HIDDEN"}, "none"),
                    Def(<<"s", "v", "c">>, "SET_DEFLIST_UNIQUE", 2, {}, "InfoSvc"),
                    Def(<<"i", "t">>, "SET_DEFLIST", 3, {}, "InfoItem"),
                    Def(<<"p">>, "SET_STRLIST", 4, {}, "none"),
                    Def(<<"a", "l">>, "SET_ALIAS", 0, {}, "none") >>,
     has_defaults |-> TRUE,
     defaults |-> << VStr(<<"a">>), VNum(1), VNoArr, VNoArr, VNoArr >>,
     type_offset1 |-> 0]

\* a root without a defaults struct (info->defaults == NULL)
InfoAux ==
    [defines |-> << Def(<<"s">>, "SET_STR", 0, {}, "none"),
                    Def(<<"t">>, "SET_TIME", 1, {}, "none"),
                    Def(<<"i", "t">>, "SET_DEFLIST", 2, {}, "InfoItem"),
                    Def(<<"p">>, "SET_STRLIST", 3, {}, "none") >>,
     has_defaults |-> FALSE,
     defaults |-> <<>>,
     type_offset1 |-> 0]

\* a root without a defaults struct whose fields are all scalars
InfoBare ==
    [defines |-> << Def(<<"b">>, "SET_BOOL", 0, {}, "none"),
                    Def(<<"z">>, "SET_SIZE", 1, {}, "none"),
                    Def(<<"o">>, "SET_UINT_OCT", 2, {}, "none"),
                    Def(<<"q">>, "SET_STR", 3, {}, "none"),
                    Def(<<"w">>, "SET_STR_VARS", 4, {}, "none"),
                    Def(<<"e">>, "SET_ENUM", 5, {}, "none") >>,
     has_defaults |-> FALSE,
     defaults |-> <<>>,
     type_offset1 |-> 0]

InfoOf(name) ==
    CASE name = "InfoSvc" -> InfoSvc
      [] name = "InfoSub" -> InfoSub
      [] name = "InfoItem" -> InfoItem
      [] name = "InfoMain" -> InfoMain
      [] name = "InfoAux" -> InfoAux
      [] name = "InfoBare" -> InfoBare

SETTING_TYPE_IS_DEFLIST(type) == type \in {"SET_DEFLIST", "SET_DEFLIST_UNIQUE"}

-----------------------------------------------------------------------------
(* settings_section_escape() of lib-settings *)

RECURSIVE settings_section_escape(_)
settings_section_escape(name) ==
    IF name = <<>> THEN <<>>
    ELSE (CASE Head(name) = "/" -> <<"\\", "s">>
            [] Head(name) = " " -> <<"\\", "_">>
            [] Head(name) = "\\" -> <<"\\", "\\">>
            [] OTHER -> <<Head(name)>>)
         \o settings_section_escape(Tail(name))

\* setting_export_section_name: the text it appends for one list element
setting_export_section_name(def, set, idx) ==
    IF def.type # "SET_DEFLIST_UNIQUE" THEN FmtU(idx)
    ELSE LET name_offset1 == InfoOf(def.list_info).type_offset1
             name == set[name_offset1].s
         IN  IF name = NULL \/ name = <<>> THEN FmtU(idx)
             ELSE settings_section_escape(name)

-----------------------------------------------------------------------------
(* settings_export.  The walker works on a record c holding the context's  *)
(* fields (value, prefix, keys, scope, flags, section_idx) and what has    *)
(* been observed so far: out, the callback invocations in order; lists,    *)
(* one record per nested-list field passed at lines 360-375; maps, one    *)
(* record per created multimap field come to at lines 311-312; sections   *)
(* and elements, one record per created nested-list field and per element  *)
(* walked at lines 364-375; panic, set                                     *)
(* when an i_assert()/i_unreached() has ended the process.                 *)

\* one callback invocation; site is the place of the call in settings_export:
\* "announce" (line 321), "pair" (line 331) or "leaf" (line 353)
Entry(key, value, type, site) ==
    [key |-> key, value |-> value, type |-> type, site |-> site]

\* lines 232-250: dump_default as the scope decides it
ScopeDumpDefaultInverted(scope, def, changed) ==
    CASE scope = "ALL_WITH_HIDDEN" -> TRUE
      [] scope = "ALL_WITHOUT_HIDDEN" ->
           IF "SET_FLAG_HIDDEN" \notin def.flags THEN TRUE ELSE changed
      [] scope = "SET" -> changed
      [] scope = "CHANGED" -> ~changed
ScopeDumpDefault(scope, def, changed) ==
    CASE scope = "ALL_WITH_HIDDEN" -> TRUE
      [] scope = "ALL_WITHOUT_HIDDEN" ->
           IF "SET_FLAG_HIDDEN" \notin def.flags THEN TRUE ELSE changed
      [] scope = "SET" -> changed
      [] scope = "CHANGED" -> FALSE

\* lines 251-264: the default and dump_default a field is formatted with
ListDefaults(c, info, parent_unique_deflist, def, value, default_value, changed, dd) ==
    IF ~parent_unique_deflist \/ "HIDE_LIST_DEFAULTS" \notin c.flags
    THEN [default_value |-> default_value, dump_default |-> dd]
    ELSE IF ~changed /\ def.offset + 1 # info.type_offset1
    THEN [default_value |-> PtrTo(value), dump_default |-> dd]
    ELSE [default_value |-> default_value, dump_default |-> TRUE]

\* lines 318-319 and 355-356: the dedup set after a key has been emitted
KeysInsertNever(c, key) == c.keys
KeysInsertAlways(c, key) == c.keys \cup {key}
KeysInsert(c, key) ==
    IF "DEDUPLICATE_KEYS" \in c.flags THEN c.keys \cup {key} ELSE c.keys

\* lines 294-299: the space-joined section names of a list field
RECURSIVE SectionNames(_, _, _, _)
SectionNames(def, children, idx, i) ==
    IF i > Len(children) THEN <<>>
    ELSE (IF i > 1 THEN <<" ">> ELSE <<>>)
         \o setting_export_section_name(def, children[i], idx + i - 1)
         \o SectionNames(def, children, idx, i + 1)

\* lines 323-333: one NORMAL entry per (key, value) pair of a strlist
StrlistEntriesFirstOnly(prefix, def, strings, i) ==
    IF i + 1 > Len(strings) THEN <<>>
    ELSE <<Entry(prefix \o def.key \o <<SETTINGS_SEPARATOR>> \o strings[i],
                 strings[i + 1], "NORMAL", "pair")>>

RECURSIVE StrlistEntries(_, _, _, _)
StrlistEntries(prefix, def, strings, i) ==
    IF i + 1 > Len(strings) THEN <<>>
    ELSE <<Entry(prefix \o def.key \o <<SETTINGS_SEPARATOR>> \o strings[i],
                 strings[i + 1], "NORMAL", "pair")>>
         \o StrlistEntries(prefix, def, strings, i + 2)

\* a created multimap field the walk has come to: its key, the stored array,
\* the number of entries emitted before it and whether its key was in ctx->keys
MapRecord(key, strings, before, known) ==
    [key |-> key, strings |-> strings, before |-> before, known |-> known]

\* lines 304-336: case SET_STRLIST
ExportStrlist(c, def, value) ==
    IF ~value.created THEN c
    ELSE LET key == c.prefix \o def.key
             c1 == [c EXCEPT !.maps = @ \o <<MapRecord(key, value.l, Len(c.out),
                                                        key \in c.keys)>>]
         IN  IF key \in c.keys THEN c1
             ELSE IF Len(value.l) % 2 # 0
             THEN [c1 EXCEPT !.keys = KeysInsert(c, key),
                             !.out = @ \o <<Entry(key, <<>>, "KEY_LIST", "announce")>>,
                             !.panic = TRUE]
             ELSE [c1 EXCEPT !.keys = KeysInsert(c, key),
                             !.out = @ \o <<Entry(key, <<>>, "KEY_LIST", "announce")>>
                                       \o StrlistEntries(c.prefix, def, value.l, 1)]

\* lines 340-358: the generic emission of what the switch left in ctx->value
EmitLeaf(c, info, parent_unique_deflist, def, dump) ==
    IF ~(Len(c.value) > 0 \/ dump) THEN c
    ELSE LET key == c.prefix \o def.key
             type == IF def.offset + 1 = info.type_offset1 /\ parent_unique_deflist
                     THEN "UNIQUE_KEY"
                     ELSE IF SETTING_TYPE_IS_DEFLIST(def.type) THEN "LIST"
                     ELSE "NORMAL"
         IN  IF key \in c.keys THEN c
             ELSE [c EXCEPT !.out = @ \o <<Entry(key, c.value, type, "leaf")>>,
                            !.keys = KeysInsert(c, key)]

\* line 363: ctx->section_idx += count
AdvanceSectionIdxPerField(idx, count) == IF count > 0 THEN idx + 1 ELSE idx
AdvanceSectionIdx(idx, count) == idx + count

\* line 368: the index handed to the i-th child (i from 0)
ChildSectionIdx(section_start_idx, i) == section_start_idx + i

\* what lines 360-375 did for one nested-list field
ListRecord(key, count, before, after) ==
    [key |-> key, count |-> count, before |-> before, after |-> after,
     ids |-> [i \in 1..count |-> ChildSectionIdx(before, i - 1)]]

\* a created nested-list field the walk has come to: its key, its define and
\* elements, ctx->section_idx and the number of entries emitted when it was
\* come to, and whether its key was in ctx->keys
SectionRecord(key, def, children, section_idx0, before, known) ==
    [key |-> key, def |-> def, children |-> children, section_idx |-> section_idx0,
     before |-> before, known |-> known]

\* the walk of the i-th element of the list field key: the entries emitted
\* before it and up to its end
ElementRecord(key, i, from, to) == [key |-> key, i |-> i, from |-> from, to |-> to]

\* line 374: str_truncate(ctx->prefix, prefix_len)
TruncatePrefixNever(c, prefix_len) == c
TruncatePrefix(c, prefix_len) == [c EXCEPT !.prefix = SubSeq(@, 1, prefix_len)]

RECURSIVE settings_export(_, _, _, _, _)
RECURSIVE ExportDefine(_, _, _, _, _, _)
RECURSIVE ExportChildren(_, _, _, _, _, _, _)

\* lines 364-375: the loop over the children of one list field
ExportChildren(c, def, children, change_children, section_start_idx, prefix0, i) ==
    IF i > Len(children) THEN c
    ELSE IF c.panic THEN c
    ELSE Bind(settings_export(
                  [c EXCEPT !.prefix =
                       @ \o def.key \o <<SETTINGS_SEPARATOR>>
                       \o setting_export_section_name(def, children[i],
                              ChildSectionIdx(section_start_idx, i - 1))
                       \o <<SETTINGS_SEPARATOR>>],
                  InfoOf(def.list_info), def.type = "SET_DEFLIST_UNIQUE",
                  children[i], change_children[i]),
              LAMBDA c2 :
                  IF c2.panic THEN c2
                  ELSE ExportChildren(
                           TruncatePrefix(
                               [c2 EXCEPT !.elements = @ \o
                                    <<ElementRecord(prefix0 \o def.key, i, Len(c.out),
                                                    Len(c2.out))>>],
                               Len(prefix0)),
                           def, children, change_children, section_start_idx, prefix0,
                           i + 1))

\* lines 285-303 and 340-375: a nested-list field whose array is created
ExportDeflist(c, info, parent_unique_deflist, def, value, change_value) ==
    IF Len(value.l) # Len(change_value.l) THEN [c EXCEPT !.panic = TRUE]
    ELSE Bind(EmitLeaf([c EXCEPT !.value =
                            SectionNames(def, value.l, c.section_idx, 1),
                                 !.sections = @ \o
                                     <<SectionRecord(c.prefix \o def.key, def, value.l,
                                                     c.section_idx, Len(c.out),
                                                     (c.prefix \o def.key) \in c.keys)>>],
                       info, parent_unique_deflist, def, FALSE),
              LAMBDA c1 :
                  ExportChildren(
                      [c1 EXCEPT
                         !.section_idx = AdvanceSectionIdx(c1.section_idx, Len(value.l)),
                         !.lists = @ \o <<ListRecord(c.prefix \o def.key, Len(value.l),
                                          c1.section_idx,
                                          AdvanceSectionIdx(c1.section_idx,
                                                            Len(value.l)))>>],
                      def, value.l, change_value.l, c1.section_idx, c.prefix, 1))

\* lines 228-375: one iteration of the loop over info->defines
ExportDefine(c, info, parent_unique_deflist, set, change_set, def) ==
    LET value == set[def.offset + 1]
        default_value0 == IF ~info.has_defaults THEN PtrNull
                          ELSE PtrTo(info.defaults[def.offset + 1])
        change_value == change_set[def.offset + 1]
        changed == change_value.ch # 0
        c0 == [c EXCEPT !.value = <<>>]
    IN
    IF def.type \in ScalarTypes THEN
        Bind(ListDefaults(c, info, parent_unique_deflist, def, value, default_value0,
                          changed, ScopeDumpDefault(c.scope, def, changed)),
             LAMBDA ld :
                 Bind(config_export_type(value, ld.default_value, def.type,
                                         ld.dump_default),
                      LAMBDA r :
                          IF r.panic \/ ~r.ok THEN [c0 EXCEPT !.panic = TRUE]
                          ELSE EmitLeaf([c0 EXCEPT !.value = r.str], info,
                                        parent_unique_deflist, def, r.dump)))
    ELSE IF SETTING_TYPE_IS_DEFLIST(def.type) THEN
        IF ~value.created
        THEN [c0 EXCEPT !.lists = @ \o <<ListRecord(c.prefix \o def.key, 0,
                                         c.section_idx,
                                         AdvanceSectionIdx(c.section_idx, 0))>>,
                        !.section_idx = AdvanceSectionIdx(c.section_idx, 0)]
        ELSE ExportDeflist(c0, info, parent_unique_deflist, def, value, change_value)
    ELSE IF def.type = "SET_STRLIST" THEN ExportStrlist(c0, def, value)
    ELSE c0

RECURSIVE ExportDefines(_, _, _, _, _, _)
ExportDefines(c, info, parent_unique_deflist, set, change_set, i) ==
    IF i > Len(info.defines) THEN c
    ELSE IF c.panic THEN c
    ELSE Bind(ExportDefine(c, info, parent_unique_deflist, set, change_set,
                           info.defines[i]),
              LAMBDA c1 : ExportDefines(c1, info, parent_unique_deflist, set,
                                        change_set, i + 1))

settings_export(c, info, parent_unique_deflist, set, change_set) ==
    Bind(c, LAMBDA c0 : ExportDefines(c0, info, parent_unique_deflist, set,
                                      change_set, 1))

-----------------------------------------------------------------------------
(* The export context and its life cycle *)

Scopes == {"ALL_WITH_HIDDEN", "ALL_WITHOUT_HIDDEN", "SET", "CHANGED"}
Flags == SUBSET {"HIDE_LIST_DEFAULTS", "DEDUPLICATE_KEYS"}

\* struct config_export_context; no_ctx stands for memory that holds no context
no_ctx ==
    [value |-> <<>>, prefix |-> <<>>, keys |-> {}, scope |-> "ALL_WITH_HIDDEN",
     flags |-> {}, attached |-> FALSE, module_parsers |-> <<>>,
     dup_module_parsers |-> FALSE, section_idx |-> 0]

\* the walker's record for a context, and the context after a walk
Walker(x) ==
    [value |-> x.value, prefix |-> x.prefix, keys |-> x.keys, scope |-> x.scope,
     flags |-> x.flags, section_idx |-> x.section_idx,
     out |-> <<>>, lists |-> <<>>, maps |-> <<>>, sections |-> <<>>,
     elements |-> <<>>, panic |-> FALSE]

AfterWalk(x, c) ==
    [x EXCEPT !.value = c.value, !.prefix = c.prefix, !.keys = c.keys,
              !.section_idx = c.section_idx]

\* line 523: module_parser->delayed_error != NULL
HasDelayedErrorNever(module_parser) == FALSE
HasDelayedError(module_parser) == module_parser.delayed_error # NULL

\* config_export_parser: the context, the caller's *section_idx, the return
\* value, *error_r and what the walk did
config_export_parser(x, parser_idx, sidx) ==
    LET module_parser == x.module_parsers[parser_idx]
    IN  IF HasDelayedError(module_parser)
        THEN [ctx |-> x, section_idx |-> sidx, ret |-> -1,
              error |-> module_parser.delayed_error,
              out |-> <<>>, lists |-> <<>>, maps |-> <<>>, sections |-> <<>>,
     elements |-> <<>>, panic |-> FALSE]
        ELSE Bind(settings_export(Walker([x EXCEPT !.section_idx = sidx]),
                                  InfoOf(module_parser.root), FALSE,
                                  module_parser.set, module_parser.changes),
                  LAMBDA c :
                      [ctx |-> AfterWalk(x, c), section_idx |-> c.section_idx,
                       ret |-> 0, error |-> NULL, out |-> c.out, lists |-> c.lists,
                       maps |-> c.maps, sections |-> c.sections,
                       elements |-> c.elements,
                       panic |-> c.panic])

\* the history record of one config_export_parser call on context x
CallRecord(r, parser_idx, start, x, via) ==
    [pass |-> pass, via |-> via, parser_idx |-> parser_idx, start |-> start,
     end |-> r.section_idx, ret |-> r.ret, error |-> r.error, out |-> r.out,
     lists |-> r.lists, maps |-> r.maps, sections |-> r.sections,
     elements |-> r.elements, panic |-> r.panic, scope |-> x.scope,
     flags |-> x.flags,
     keys_before |-> x.keys, keys_after |-> r.ctx.keys]

\* config_export_init
ExportInit(scope, flags) ==
    /\ handle = "NULL" /\ freed = 0 /\ ~crashed /\ ctx = no_ctx
    /\ handle' = "ctx"
    /\ ctx' = [no_ctx EXCEPT !.scope = scope, !.flags = flags]
    /\ op' = "init"
    /\ UNCHANGED <<freed, crashed, parsers, section_idx, pass, calls, ret, tin, tout>>

\* config_export_set_module_parsers
ExportSetModuleParsers ==
    /\ handle = "ctx" /\ ~crashed /\ ~ctx.attached
    /\ ctx' = [ctx EXCEPT !.attached = TRUE, !.module_parsers = parsers]
    /\ op' = "set"
    /\ UNCHANGED <<handle, freed, crashed, parsers, section_idx, pass, calls, ret,
                   tin, tout>>

\* config_export_dup_module_parsers
ExportDupModuleParsers ==
    /\ handle = "ctx" /\ ~crashed /\ ~ctx.attached
    /\ ctx' = [ctx EXCEPT !.attached = TRUE, !.module_parsers = parsers,
                          !.dup_module_parsers = TRUE]
    /\ op' = "dup"
    /\ UNCHANGED <<handle, freed, crashed, parsers, section_idx, pass, calls, ret,
                   tin, tout>>

\* the caller assigns its section_idx variable before a new pass
CallerSeed ==
    /\ handle = "ctx" /\ ~crashed /\ pass + 1 < MaxPasses
    /\ calls # <<>> /\ calls[Len(calls)].pass = pass
    /\ section_idx' = 0
    /\ pass' = pass + 1
    /\ op' = "seed"
    /\ UNCHANGED <<handle, ctx, freed, crashed, parsers, calls, ret, tin, tout>>

\* config_export_parser, called by the caller
ExportParser(parser_idx) ==
    /\ handle = "ctx" /\ ~crashed /\ ctx.attached
    /\ Len(calls) < MaxCalls
    /\ parser_idx \in 1..Len(ctx.module_parsers)
    /\ \E r \in {config_export_parser(ctx, parser_idx, section_idx)} :
           /\ ctx' = r.ctx
           /\ section_idx' = r.section_idx
           /\ ret' = r.ret
           /\ crashed' = r.panic
           /\ calls' = Append(calls, CallRecord(r, parser_idx, section_idx, ctx, "one"))
    /\ op' = "parser"
    /\ UNCHANGED <<handle, freed, parsers, pass, tin, tout>>

\* config_export_free, lines 482-485, once ctx has been loaded from *_ctx
FreeContextKeep(x, n) == [ctx |-> x, freed |-> n]
FreeContext(x, n) == [ctx |-> no_ctx, freed |-> n + 1]

\* config_export_free, on a live handle or on one that config_export_free or
\* config_export_all_parsers has set to NULL.  With *_ctx == NULL line 482
\* reads ctx->dup_module_parsers through a NULL pointer: whatever the build,
\* the address is in the unmapped first page, the read faults and the process
\* ends.
ExportFree ==
    /\ ~crashed
    /\ handle = "ctx" \/ freed > 0
    /\ IF handle = "NULL"
       THEN /\ crashed' = TRUE
            /\ UNCHANGED <<handle, ctx, freed>>
       ELSE /\ handle' = "NULL"
            /\ ctx' = FreeContext(ctx, freed).ctx
            /\ freed' = FreeContext(ctx, freed).freed
            /\ UNCHANGED crashed
    /\ op' = "free"
    /\ UNCHANGED <<parsers, section_idx, pass, calls, ret, tin, tout>>

\* lines 498-504: the loop of config_export_all_parsers from parser i on
RECURSIVE AllParsersLoopNoBreak(_, _, _, _)
AllParsersLoopNoBreak(x, sidx, i, log) ==
    IF i > Len(x.module_parsers)
    THEN [ctx |-> x, section_idx |-> sidx, ret |-> 0, log |-> log, panic |-> FALSE]
    ELSE Bind(config_export_parser(x, i, sidx),
              LAMBDA r :
                  Bind(AllParsersLoopNoBreak(r.ctx, r.section_idx, i + 1,
                           Append(log, CallRecord(r, i, sidx, x, "all"))),
                       LAMBDA rest :
                           [rest EXCEPT !.ret = IF r.ret < 0 THEN -1 ELSE @,
                                        !.panic = r.panic \/ @]))

RECURSIVE AllParsersLoop(_, _, _, _)
AllParsersLoop(x, sidx, i, log) ==
    IF i > Len(x.module_parsers)
    THEN [ctx |-> x, section_idx |-> sidx, ret |-> 0, log |-> log, panic |-> FALSE]
    ELSE Bind(config_export_parser(x, i, sidx),
              LAMBDA r :
                  IF r.panic \/ r.ret < 0
                  THEN [ctx |-> r.ctx, section_idx |-> r.section_idx,
                        ret |-> IF r.panic THEN 0 ELSE -1,
                        log |-> Append(log, CallRecord(r, i, sidx, x, "all")),
                        panic |-> r.panic]
                  ELSE Bind(Append(log, CallRecord(r, i, sidx, x, "all")),
                            LAMBDA log1 :
                                AllParsersLoop(r.ctx, r.section_idx, i + 1, log1)))

\* config_export_all_parsers
ExportAllParsers ==
    /\ handle = "ctx" /\ ~crashed /\ ctx.attached
    /\ \E r \in {AllParsersLoop(ctx, section_idx, 1, calls)} :
           /\ handle' = "NULL"
           /\ section_idx' = r.section_idx
           /\ calls' = r.log
           /\ crashed' = r.panic
           /\ IF r.panic
              THEN /\ ctx' = r.ctx
                   /\ UNCHANGED <<freed, ret>>
              ELSE /\ ctx' = FreeContext(r.ctx, freed).ctx
                   /\ freed' = FreeContext(r.ctx, freed).freed
                   /\ ret' = r.ret
    /\ op' = "all"
    /\ UNCHANGED <<parsers, pass, tin, tout>>

Next ==
    \/ \E scope \in Scopes, flags \in Flags : ExportInit(scope, flags)
    \/ ExportSetModuleParsers
    \/ ExportDupModuleParsers
    \/ CallerSeed
    \/ \E parser_idx \in 1..Len(parsers) : ExportParser(parser_idx)
    \/ ExportAllParsers
    \/ ExportFree

-----------------------------------------------------------------------------
(* The configurations the caller may hold: settings structs and change     *)
(* structs as the settings parser builds them, one pair per root.          *)

ModuleParser(root, set, changes, delayed_error) ==
    [root |-> root, set |-> set, changes |-> changes, delayed_error |-> delayed_error]

ErrText == <<"e", "r", "r">>

SvcElem(name, v, c, m) == <<VStr(name), VStr(v), VNum(c), VStr(m)>>
SvcChanges(chv, chc, chm) == <<Chg(1), Chg(chv), Chg(chc), Chg(chm)>>

SubElem(y) == <<VSize(y)>>
ItemElem(x, subs, p) == <<VBool(x), IF subs = <<>> THEN VNoArr ELSE VArr(subs), p>>
ItemChanges(chx, nsub) ==
    <<Chg(chx), ChgArr([i \in 1..nsub |-> <<Chg(1)>>]), Chg(0)>>

\* the name of the i-th element of the unique list: one that needs escaping,
\* none, a plain one
SvcName(i) ==
    CASE i = 1 -> <<"b", " ", "/">>
      [] i = 2 -> <<>>
      [] OTHER -> <<"a">>

\* n elements of the unique list, none of their fields changed but the name
SvcList(n) ==
    IF n = 0 THEN VNoArr
    ELSE VArr([i \in 1..n |-> SvcElem(SvcName(i), <<"0">>, 1, <<"a">>)])
SvcListChanges(n) == ChgArr([i \in 1..n |-> SvcChanges(0, 0, 0)])

\* n elements of an indexed list; the first holds a list of one element
\* a multimap of n pairs, all under the same subkey
Strlist(n) ==
    IF n = 0 THEN VNoArr
    ELSE VArr([i \in 1..(2 * n) |-> IF i % 2 = 1 THEN <<"k">> ELSE FmtU(i \div 2)])

\* n elements of the indexed list; the first holds a list, the second a multimap
ItemList(n) ==
    VArr([i \in 1..n |-> ItemElem(TRUE, IF i = 1 THEN <<SubElem(1024)>> ELSE <<>>,
                                  IF i = 2 THEN Strlist(1) ELSE VNoArr)])
ItemListChanges(n) ==
    ChgArr([i \in 1..n |-> ItemChanges(1, IF i = 1 THEN 1 ELSE 0)])

MainParser(s, chs, h, chh, svc, chsvc, nit, p, err) ==
    ModuleParser("InfoMain",
                 <<VStr(s), VNum(h), svc, ItemList(nit), p>>,
                 <<Chg(chs), Chg(chh), chsvc, ItemListChanges(nit), Chg(0)>>,
                 err)

AuxParser(s, chs, t, cht, nit, p, err) ==
    ModuleParser("InfoAux",
                 <<VStr(s), VNum(t), ItemList(nit), p>>,
                 <<Chg(chs), Chg(cht), ItemListChanges(nit), Chg(0)>>,
                 err)

BareParser(b, z, o, q, w, e, ch) ==
    ModuleParser("InfoBare",
                 <<VBool(b), VSize(z), VNum(o), VStr(q), VStr(w), VStr(e)>>,
                 [i \in 1..6 |-> Chg(ch)],
                 NULL)

ErrAt(err, i) == IF err = i THEN ErrText ELSE NULL

\* lists that differ in their structure: list sizes, multimaps, errors, order
StructLists ==
    { IF order = 1
      THEN << MainParser(<<"b">>, 1, 1, 0, SvcList(nsvc), SvcListChanges(nsvc), nit,
                         Strlist(nsvc), ErrAt(err, 1)),
              AuxParser(<<"c">>, 1, 60, 1, 2, Strlist(1), ErrAt(err, 2)) >>
      ELSE << AuxParser(<<"c">>, 1, 60, 1, 2, Strlist(1), ErrAt(err, 1)),
              MainParser(<<"b">>, 1, 1, 0, SvcList(nsvc), SvcListChanges(nsvc), nit,
                         Strlist(nsvc), ErrAt(err, 2)),
              AuxParser(<<"c">>, 1, 60, 1, 1, VNoArr, ErrAt(err, 3)) >>
      : nsvc \in 0..MaxSvc, nit \in {0, 3, MaxItems}, order \in 1..2, err \in 0..3 }

InitLife ==
    /\ handle = "NULL"
    /\ ctx = no_ctx
    /\ freed = 0
    /\ crashed = FALSE
    /\ section_idx = 0
    /\ pass = 0
    /\ calls = <<>>
    /\ ret = 0
    /\ op = "none"

\* the harness of the type formatter at rest
no_tin == [type |-> "none", value |-> VNoArr, default_value |-> PtrNull,
           dump_default |-> FALSE]
no_tout == [done |-> FALSE, r |-> TypeResult(<<>>, FALSE, FALSE, FALSE)]

Init ==
    /\ InitLife
    /\ parsers \in StructLists
    /\ tin = no_tin
    /\ tout = no_tout

Spec == Init /\ [][Next]_vars

-----------------------------------------------------------------------------
(* Lists that differ in the values and change bytes of their scalar fields *)

\* one element of the unique list, named "a"
SvcOne(v, c, m) == VArr(<<SvcElem(<<"a">>, v, c, m)>>)
SvcOneChanges(chv, ch) == ChgArr(<<SvcChanges(chv, ch, ch)>>)

StrvarValues == {NULL, <<"0">>, <<"0", "a">>}

LeafLists ==
    \* the scalars of the roots
    { << MainParser(s, chs, h, chh, VNoArr, ChgArr(<<>>), 0, VNoArr, NULL),
         AuxParser(s2, 0, 60, 0, 0, VNoArr, NULL) >>
      : s \in {NULL, <<"a">>, <<"b">>}, chs \in {0, 1}, h \in {1, 2}, chh \in {0, 1},
        s2 \in {NULL, <<"c">>} }
    \cup
    \* the scalars of an element of the unique list
    { << MainParser(<<"a">>, 0, 1, 0, SvcOne(v, c, m), SvcOneChanges(chv, ch), 0,
                    VNoArr, NULL) >>
      : v \in StrvarValues, chv \in {0, 1}, c \in {1, 2}, m \in {<<"a">>, <<"b">>},
        ch \in {0, 1} }
    \cup
    \* the scalars of a root without defaults
    { << BareParser(b, IF b THEN 1024 ELSE 0, 8, q, w, <<"a">>, ch) >>
      : b \in BOOLEAN, q \in {NULL, <<>>, <<"a">>}, w \in StrvarValues, ch \in {0, 1} }

InitLeaf ==
    /\ InitLife
    /\ parsers \in LeafLists
    /\ tin = no_tin
    /\ tout = no_tout

NextLeaf ==
    \/ \E scope \in Scopes, flags \in Flags : ExportInit(scope, flags)
    \/ ExportSetModuleParsers
    \/ \E parser_idx \in 1..Len(parsers) : ExportParser(parser_idx)
    \/ ExportAllParsers

SpecLeaf == InitLeaf /\ [][NextLeaf]_vars

-----------------------------------------------------------------------------
(* The type formatter on its own: config_export_type applied to one input *)

EnumChars == {"a", "b"}

\* the alternatives of an enum: non-empty strings of at most MaxEnumLen characters
EnumAlternatives ==
    UNION { [1..n -> EnumChars] : n \in 1..MaxEnumLen }

\* the default of an enum field: its alternatives joined by ':', the default first
EnumLists ==
    EnumAlternatives \cup { x \o <<":">> \o y : x, y \in EnumAlternatives }

RECURSIVE SplitAt(_, _, _)
SplitAt(list, i, cur) ==
    IF i > Len(list) THEN <<cur>>
    ELSE IF list[i] = ":" THEN <<cur>> \o SplitAt(list, i + 1, <<>>)
    ELSE SplitAt(list, i + 1, Append(cur, list[i]))

\* the alternatives an enum list allows, in order
Alternatives(list) == SplitAt(list, 1, <<>>)

\* a field of a parsed settings struct holds one of the alternatives of its default
EnumInputs ==
    UNION { { [type |-> "SET_ENUM", value |-> VStr(Alternatives(d)[k]),
                default_value |-> PtrTo(VStr(d)), dump_default |-> dd]
              : k \in 1..Len(Alternatives(d)), dd \in BOOLEAN }
            : d \in EnumLists }

\* a value that fits the 64 bits of a uoff_t
IsUoff(size) == Len(size) < 7 \/ (Len(size) = 7 /\ size[7] < 16)

\* sizes: 0, and values not divisible by 1024 times a power of 1024
SizeValues ==
    {<<>>} \cup
    { size \in { [i \in 1..e |-> 0] \o m
                 : e \in 0..MaxSizeShift,
                   m \in {<<1>>, <<3>>, <<1023>>, <<512, 1>>, <<15>>} }
      : IsUoff(size) }

\* durations in seconds: 0, and counts of each unit of the chain
TimeValues ==
    {0} \cup { m * u : m \in 1..MaxTimeCount, u \in {1, 60, 3600, 86400, 604800} }

\* durations in milliseconds: whole seconds and others
MsecValues ==
    { 1000 * t : t \in { x \in TimeValues : x <= MaxMsecSeconds } }
    \cup { t \in TimeValues : t % 1000 # 0 }
    \cup { 1000 * t + 500 : t \in 0..MaxTimeCount }

NumberInputs ==
    { [type |-> "SET_SIZE",
       value |-> [b |-> FALSE, n |-> 0, s |-> NULL, created |-> FALSE, l |-> size],
       default_value |-> PtrNull, dump_default |-> TRUE] : size \in SizeValues }
    \cup { [type |-> "SET_TIME", value |-> VNum(t), default_value |-> PtrNull,
            dump_default |-> TRUE] : t \in TimeValues }
    \cup { [type |-> "SET_TIME_MSECS", value |-> VNum(t), default_value |-> PtrNull,
            dump_default |-> TRUE] : t \in MsecValues }

TypeInputs == EnumInputs \cup NumberInputs

\* config_export_type called on the input
ApplyExportType ==
    /\ ~tout.done
    /\ tout' = [done |-> TRUE,
                r |-> config_export_type(tin.value, tin.default_value, tin.type,
                                         tin.dump_default)]
    /\ UNCHANGED <<handle, ctx, freed, crashed, parsers, section_idx, pass, calls,
                   ret, op, tin>>

InitType ==
    /\ InitLife
    /\ parsers = <<>>
    /\ tin \in TypeInputs
    /\ tout = no_tout

NextType == ApplyExportType

SpecType == InitType /\ [][NextType]_vars

-----------------------------------------------------------------------------
(* Claims *)

RECURSIVE SumCounts(_)
SumCounts(lists) ==
    IF lists = <<>> THEN 0 ELSE Head(lists).count + SumCounts(Tail(lists))

RECURSIVE ConcatIds(_)
ConcatIds(lists) ==
    IF lists = <<>> THEN <<>> ELSE Head(lists).ids \o ConcatIds(Tail(lists))

\* the indexes handed to list elements by the calls of pass p, in order
RECURSIVE PassIds(_, _)
PassIds(log, p) ==
    IF log = <<>> THEN <<>>
    ELSE (IF Head(log).pass = p THEN ConcatIds(Head(log).lists) ELSE <<>>)
         \o PassIds(Tail(log), p)

Distinct(seq) == \A i, j \in 1..Len(seq) : i # j => seq[i] # seq[j]

\* C1: across the config_export_parser calls that thread one section_idx
\* variable the counter never decreases, every nested-list field of n elements
\* advances it by exactly n, and no two list elements get the same index; three
\* elements of an indexed list that follows a unique list of k elements, the
\* counter starting at 0, get k, k+1, k+2.
C1_SectionIdxUnique ==
    /\ \A i \in 1..Len(calls) :
         LET call == calls[i]
         IN  /\ call.end >= call.start
             /\ ~call.panic => call.end = call.start + SumCounts(call.lists)
             /\ \A j \in 1..Len(call.lists) :
                  LET l == call.lists[j]
                  IN  /\ l.after = l.before + l.count
                      /\ Len(l.ids) = l.count
                      /\ \A k \in 1..l.count : l.ids[k] = l.before + k - 1
                      /\ j = 1 => l.before = call.start
                      /\ j > 1 => l.before = call.lists[j - 1].after
             /\ (i > 1 /\ calls[i - 1].pass = call.pass)
                    => call.start = calls[i - 1].end
             /\ (call.start = 0 /\ call.ret = 0
                 /\ parsers[call.parser_idx].root = "InfoMain"
                 /\ Len(call.lists) >= 2 /\ call.lists[2].count = 3)
                    => call.lists[2].ids = << call.lists[1].count,
                                              call.lists[1].count + 1,
                                              call.lists[1].count + 2 >>
    /\ \A p \in 0..pass : Distinct(PassIds(calls, p))
    /\ (calls # <<>> /\ calls[Len(calls)].pass = pass)
           => section_idx = calls[Len(calls)].end

\* two parsers exported in one pass, the first with a unique list followed by
\* an indexed list of three elements one of which holds a list of its own
C1_Witness ==
    /\ Len(calls) >= 2
    /\ calls[1].pass = calls[2].pass
    /\ calls[1].parser_idx # calls[2].parser_idx
    /\ calls[1].ret = 0 /\ calls[2].ret = 0
    /\ calls[1].start = 0
    /\ Len(calls[1].lists) >= 3
    /\ calls[1].lists[1].count = MaxSvc
    /\ calls[1].lists[2].count = 3
    /\ calls[1].lists[3].count = 1
    /\ calls[2].lists # <<>>
    /\ calls[2].lists[1].count > 0
    /\ calls[2].start = MaxSvc + 4


\* the callback invocations of the calls of pass p, in order
RECURSIVE PassOut(_, _)
PassOut(log, p) ==
    IF log = <<>> THEN <<>>
    ELSE (IF Head(log).pass = p THEN Head(log).out ELSE <<>>) \o PassOut(Tail(log), p)

Dedup(log) == log # <<>> /\ "DEDUPLICATE_KEYS" \in log[1].flags

\* C2 as claimed: with DEDUPLICATE_KEYS no key reaches the callback twice in
\* one pass, whatever the entry is, the pairs of a multimap included.
C2_NoKeyTwice ==
    Dedup(calls) =>
        \A p \in 0..pass :
            LET out == PassOut(calls, p)
            IN  \A i, j \in 1..Len(out) : i # j => out[i].key # out[j].key

\* C2 as amended: with DEDUPLICATE_KEYS no key reaches the callback twice
\* from the multimap announcement (line 321) and the leaf emission (line 353),
\* and each such key is in the dedup set; the pairs of a multimap (line 331)
\* are emitted without the set being consulted or updated.
C2_NoAnnouncedOrLeafKeyTwice ==
    Dedup(calls) =>
        /\ \A p \in 0..pass :
             LET out == PassOut(calls, p)
             IN  \A i, j \in 1..Len(out) :
                     (i # j /\ out[i].site # "pair" /\ out[j].site # "pair")
                         => out[i].key # out[j].key
        /\ \A i \in 1..Len(calls) :
             /\ calls[i].keys_before \subseteq calls[i].keys_after
             /\ \A j \in 1..Len(calls[i].out) :
                  LET e == calls[i].out[j]
                  IN  IF e.site = "pair"
                      THEN e.key \notin calls[i].keys_after
                      ELSE /\ e.key \in calls[i].keys_after
                           /\ e.key \notin calls[i].keys_before

\* both roots exported in one pass with DEDUPLICATE_KEYS: the second one's
\* "s", "it" and "p" are already in the set, and the first multimap stored
\* its subkey twice
C2_Witness ==
    /\ Dedup(calls)
    /\ Len(calls) >= 2
    /\ calls[1].pass = calls[2].pass
    /\ calls[1].ret = 0 /\ calls[2].ret = 0
    /\ parsers[calls[1].parser_idx].root = "InfoMain"
    /\ parsers[calls[2].parser_idx].root = "InfoAux"
    /\ {<<"s">>, <<"i", "t">>, <<"p">>} \subseteq calls[2].keys_before
    /\ \E i, j \in 1..Len(calls[1].out) :
           /\ i # j
           /\ calls[1].out[i].site = "pair"
           /\ calls[1].out[i].key = calls[1].out[j].key
    /\ \E j \in 1..Len(calls[2].out) : calls[2].out[j].site = "leaf"

\* C3: config_export_parser on a parser with a delayed error returns -1 with
\* exactly that error, calls the callback zero times and leaves the dedup set
\* and the caller's section_idx as they were; on any other parser it returns 0.
C3_DelayedError ==
    /\ \A i \in 1..Len(calls) :
         LET call == calls[i]
             err == parsers[call.parser_idx].delayed_error
         IN  IF err # NULL
             THEN /\ call.ret = -1
                  /\ call.error = err
                  /\ call.out = <<>>
                  /\ call.lists = <<>>
                  /\ call.keys_after = call.keys_before
                  /\ call.end = call.start
             ELSE call.ret = 0 /\ call.error = NULL
    /\ (op = "parser" /\ calls[Len(calls)].ret = -1)
           => /\ ret = -1
              /\ section_idx = calls[Len(calls)].start
              /\ ctx.keys = calls[Len(calls)].keys_before

\* a failing call that follows a successful one which filled the dedup set
\* and advanced the counter
C3_Witness ==
    /\ op = "parser"
    /\ Len(calls) = 2
    /\ calls[1].ret = 0 /\ calls[1].out # <<>>
    /\ calls[2].ret = -1 /\ calls[2].error = ErrText
    /\ calls[2].keys_before # {}
    /\ calls[2].start > 0
    /\ section_idx = calls[2].start

\* the records of the calls made by config_export_all_parsers
AllCalls == SelectSeq(calls, LAMBDA call : call.via = "all")

FirstError ==
    IF \E i \in 1..Len(parsers) : parsers[i].delayed_error # NULL
    THEN CHOOSE i \in 1..Len(parsers) :
             /\ parsers[i].delayed_error # NULL
             /\ \A j \in 1..(i - 1) : parsers[j].delayed_error = NULL
    ELSE 0

\* what config_export_parser emits for the call recorded in call
Replay(call) ==
    config_export_parser([no_ctx EXCEPT !.scope = call.scope, !.flags = call.flags,
                                        !.keys = call.keys_before,
                                        !.attached = TRUE,
                                        !.module_parsers = parsers],
                         call.parser_idx, call.start).out

\* C4: config_export_all_parsers exports the parsers in list order and stops
\* at the first one with a delayed error: those before it are exported in
\* full, neither it nor a later one emits anything, and the result is -1;
\* without a delayed error all are exported and the result is 0.  Either way
\* the context has been freed exactly once and the caller's handle is NULL.
C4_ExportAll ==
    op = "all" =>
        /\ handle = "NULL"
        /\ freed = 1
        /\ ctx = no_ctx
        /\ \A i \in 1..Len(AllCalls) :
             /\ AllCalls[i].parser_idx = i
             /\ i > 1 => /\ AllCalls[i].start = AllCalls[i - 1].end
                         /\ AllCalls[i].keys_before = AllCalls[i - 1].keys_after
             /\ AllCalls[i].out = Replay(AllCalls[i])
        /\ IF FirstError = 0
           THEN /\ ret = 0
                /\ Len(AllCalls) = Len(parsers)
                /\ \A i \in 1..Len(AllCalls) : AllCalls[i].ret = 0
           ELSE /\ ret = -1
                /\ Len(AllCalls) = FirstError
                /\ \A i \in 1..(FirstError - 1) : AllCalls[i].ret = 0
                /\ AllCalls[FirstError].ret = -1
                /\ AllCalls[FirstError].out = <<>>

\* config_export_all_parsers on three parsers, the second with a delayed error
C4_Witness ==
    /\ op = "all"
    /\ Len(parsers) = 3
    /\ FirstError = 2
    /\ ret = -1
    /\ Len(AllCalls) = 2
    /\ AllCalls[1].out # <<>>
    /\ freed = 1
    /\ handle = "NULL"

\* C5 as claimed: config_export_free on a handle that is already NULL is a
\* no-op, so no NULL context is ever dereferenced.
C5_FreeIdempotent == ~(op = "free" /\ crashed)

\* C5 as amended: config_export_free on a live handle sets it to NULL and
\* releases the context, which is never released twice; on a handle that is
\* already NULL it dereferences the NULL context and releases nothing.
C5_FreeOnce ==
    /\ [](freed <= 1 /\ (handle = "ctx" => freed = 0))
    /\ [][op' = "free" =>
             IF handle = "NULL"
             THEN crashed' /\ freed' = freed /\ handle' = "NULL"
             ELSE ~crashed' /\ freed' = freed + 1 /\ handle' = "NULL"
                  /\ ctx' = no_ctx]_vars

\* config_export_free called again after config_export_all_parsers
C5_Witness ==
    /\ op = "free"
    /\ crashed
    /\ freed = 1
    /\ handle = "NULL"
    /\ \E i \in 1..Len(calls) : calls[i].via = "all"


Triple(e) == <<e.key, e.value, e.type>>
Triples(out) == [i \in 1..Len(out) |-> Triple(out[i])]

\* the parsers exported by the calls of pass p, in order
RECURSIVE PassParsers(_, _)
PassParsers(log, p) ==
    IF log = <<>> THEN <<>>
    ELSE (IF Head(log).pass = p THEN <<Head(log).parser_idx>> ELSE <<>>)
         \o PassParsers(Tail(log), p)

PassStart(log, p) ==
    LET of_p == SelectSeq(log, LAMBDA call : call.pass = p)
    IN  IF of_p = <<>> THEN -1 ELSE of_p[1].start

\* two exports of the same parsers from the same section index give the same
\* entries: call by call, and pass by pass
SameExportsAgree ==
    /\ \A i, j \in 1..Len(calls) :
           (/\ i < j
            /\ calls[i].parser_idx = calls[j].parser_idx
            /\ calls[i].start = calls[j].start
            /\ calls[i].scope = calls[j].scope
            /\ calls[i].flags = calls[j].flags)
               => Triples(calls[i].out) = Triples(calls[j].out)
    /\ \A p, q \in 0..pass :
           (/\ p < q
            /\ PassParsers(calls, p) = PassParsers(calls, q)
            /\ PassStart(calls, p) = PassStart(calls, q))
               => Triples(PassOut(calls, p)) = Triples(PassOut(calls, q))

\* C10 as claimed: exporting the same attached parsers twice with the same
\* scope and flags, each time from the same section index, gives the same
\* ordered sequence of (key, value, kind) entries.
C10_SameTwice == SameExportsAgree

\* C10 as amended: the same, on a context without DEDUPLICATE_KEYS; with it
\* the second export leaves out every key the first one has recorded.
C10_SameTwiceWithoutDedup ==
    /\ ~Dedup(calls) => SameExportsAgree
    /\ Dedup(calls) =>
           \A i, j \in 1..Len(calls) :
               i < j => \A k \in 1..Len(calls[j].out) :
                            calls[j].out[k].site # "pair"
                                => calls[j].out[k].key \notin calls[i].keys_after

\* a root with both lists and a multimap exported twice from section index 0
\* on a context without DEDUPLICATE_KEYS
C10_Witness ==
    /\ Len(calls) = 2
    /\ ~Dedup(calls)
    /\ calls[1].parser_idx = calls[2].parser_idx
    /\ calls[1].start = 0 /\ calls[2].start = 0
    /\ calls[1].pass = 0 /\ calls[2].pass = 1
    /\ calls[1].ret = 0 /\ calls[2].ret = 0
    /\ calls[1].end = MaxSvc + 4
    /\ \E k \in 1..Len(calls[2].out) : calls[2].out[k].type = "KEY_LIST"
    /\ calls[1].out = calls[2].out

-----------------------------------------------------------------------------
(* Scopes *)

Keys(out) == { out[k].key : k \in 1..Len(out) }

\* the entries of one config_export_all_parsers run over the parsers from
\* section index 0 on a new context, as (key, value, type) triples
ExportedUnder(scope, flags) ==
    LET x == [no_ctx EXCEPT !.scope = scope, !.flags = flags, !.attached = TRUE,
                            !.module_parsers = parsers]
        out == PassOut(AllParsersLoop(x, 0, 1, <<>>).log, pass)
    IN  { Triple(out[k]) : k \in 1..Len(out) }

HiddenKeys ==
    { InfoMain.defines[k].key : k \in { j \in 1..Len(InfoMain.defines) :
          "SET_FLAG_HIDDEN" \in InfoMain.defines[j].flags } }

NonHidden(entries) == { e \in entries : e[1] \notin HiddenKeys }

KeysOf(entries) == { e[1] : e \in entries }

ScopesMonotone(flags) ==
    /\ ExportedUnder("CHANGED", flags) \subseteq ExportedUnder("SET", flags)
    /\ NonHidden(ExportedUnder("SET", flags))
           \subseteq ExportedUnder("ALL_WITHOUT_HIDDEN", flags)
    /\ ExportedUnder("ALL_WITHOUT_HIDDEN", flags)
           \subseteq ExportedUnder("ALL_WITH_HIDDEN", flags)

ScopesKeysMonotone(flags) ==
    /\ KeysOf(ExportedUnder("CHANGED", flags)) \subseteq KeysOf(ExportedUnder("SET", flags))
    /\ KeysOf(ExportedUnder("SET", flags))
           \subseteq KeysOf(ExportedUnder("ALL_WITHOUT_HIDDEN", flags))
    /\ KeysOf(ExportedUnder("ALL_WITHOUT_HIDDEN", flags))
           \subseteq KeysOf(ExportedUnder("ALL_WITH_HIDDEN", flags))

\* config_export_all_parsers has just exported the parsers from section index 0
\* on a context that had exported nothing before
AllRun ==
    /\ op = "all"
    /\ calls # <<>>
    /\ \A i \in 1..Len(calls) : calls[i].via = "all"
    /\ calls[1].start = 0

\* C6 as claimed: for fixed parsers, flags and starting section index the
\* entries emitted under CHANGED are among those under SET, those (of
\* non-hidden fields) among those under ALL_WITHOUT_HIDDEN, those among the
\* ones under ALL_WITH_HIDDEN, for every combination of flags,
\* DEDUPLICATE_KEYS with a key shared by two parsers included.
C6_ScopesMonotone ==
    AllRun => ScopesMonotone(calls[1].flags)

\* C6 as amended: the inclusions hold of the entries for every combination of
\* flags without DEDUPLICATE_KEYS; with DEDUPLICATE_KEYS they hold of the
\* entries' keys.  The run that has happened is the one of its own scope.
C6_ScopesMonotoneWithoutDedup ==
    AllRun =>
        /\ { Triple(e) : e \in { PassOut(calls, pass)[k] :
                                    k \in 1..Len(PassOut(calls, pass)) } }
             = ExportedUnder(calls[1].scope, calls[1].flags)
        /\ "DEDUPLICATE_KEYS" \notin calls[1].flags => ScopesMonotone(calls[1].flags)
        /\ ScopesKeysMonotone(calls[1].flags)

\* an export without DEDUPLICATE_KEYS of parsers on which each scope emits
\* strictly more than the one before it
C6_Witness ==
    /\ AllRun
    /\ calls[1].flags = {}
    /\ calls[1].scope = "SET"
    /\ ExportedUnder("CHANGED", {}) # {}
    /\ ExportedUnder("CHANGED", {}) # ExportedUnder("SET", {})
    /\ ExportedUnder("SET", {}) # ExportedUnder("ALL_WITHOUT_HIDDEN", {})
    /\ ExportedUnder("ALL_WITHOUT_HIDDEN", {}) # ExportedUnder("ALL_WITH_HIDDEN", {})
    /\ ScopesMonotone({})

-----------------------------------------------------------------------------
(* The scalars of an element of a uniquely named list *)

\* the key of field f of the element named "a" of the unique list of InfoMain
SvcFieldKey(f) ==
    InfoMain.defines[3].key \o <<SETTINGS_SEPARATOR>> \o <<"a">>
        \o <<SETTINGS_SEPARATOR>> \o InfoSvc.defines[f].key

\* a string-typed field holds a non-NULL pointer; the others always hold a value
Present(def, value) ==
    def.type \in {"SET_STR", "SET_STR_VARS", "SET_ENUM"} => value.s # NULL

\* the call exported a root whose unique list holds the element named "a",
\* with HIDE_LIST_DEFAULTS under scope CHANGED or SET
HideListDefaultsCall(call) ==
    /\ parsers[call.parser_idx].root = "InfoMain"
    /\ parsers[call.parser_idx].set[3].created
    /\ Len(parsers[call.parser_idx].set[3].l) = 1
    /\ "HIDE_LIST_DEFAULTS" \in call.flags
    /\ call.scope \in {"CHANGED", "SET"}
    /\ call.ret = 0

\* C7 (as claimed): inside an element of a uniquely named list, with
\* HIDE_LIST_DEFAULTS under scope CHANGED or SET, a scalar field other than
\* the name field is suppressed whenever its change byte is 0, whatever its
\* type (SET_STR_VARS included) and the schema's default, and is emitted
\* whenever its change byte is set and its value is present.
C7_SuppressUnlessChanged ==
    \A i \in 1..Len(calls) :
        HideListDefaultsCall(calls[i]) =>
            \A f \in 2..Len(InfoSvc.defines) :
                LET mp == parsers[calls[i].parser_idx]
                    value == mp.set[3].l[1][f]
                    changed == mp.changes[3].l[1][f].ch # 0
                    emitted == SvcFieldKey(f) \in Keys(calls[i].out)
                IN  /\ ~changed => ~emitted
                    /\ (/\ changed
                        /\ Present(InfoSvc.defines[f], value)
                        /\ SvcFieldKey(f) \notin calls[i].keys_before) => emitted

-----------------------------------------------------------------------------
(* Enumerations *)

\* the chosen alternative of an enum text: up to its first ':' or its end
Chosen(text) == Alternatives(text)[1]

\* C8 (as claimed): when emission is not forced an enumeration field is
\* emitted if and only if the value's chosen alternative differs from the
\* default's chosen alternative, the part of the default up to its first
\* separator or its end, the two compared for exact equality.
C8_EnumChosenAlternative ==
    (tout.done /\ tin.type = "SET_ENUM" /\ ~tin.dump_default) =>
        /\ ~tout.r.panic
        /\ (tout.r.str # <<>>) <=> (Chosen(tin.value.s) # Chosen(tin.default_value.v.s))

-----------------------------------------------------------------------------
(* Schemas without defaults *)

\* the call exported a root whose schema has no defaults struct
NoDefaultsCall(call) ==
    /\ ~InfoOf(parsers[call.parser_idx].root).has_defaults
    /\ call.ret = 0

RootDefines(call) == InfoOf(parsers[call.parser_idx].root).defines

ScalarFields(call) ==
    { f \in 1..Len(RootDefines(call)) : RootDefines(call)[f].type \in ScalarTypes }

FieldValue(call, f) ==
    parsers[call.parser_idx].set[RootDefines(call)[f].offset + 1]

\* dump_default of root field f in the call
Forced(call, f) ==
    ScopeDumpDefault(call.scope, RootDefines(call)[f],
                     parsers[call.parser_idx].changes[RootDefines(call)[f].offset + 1].ch # 0)

\* no field before f is an enumeration whose emission is not forced
Reached(call, f) ==
    \A g \in 1..(f - 1) :
        RootDefines(call)[g].type = "SET_ENUM" => Forced(call, g)

-----------------------------------------------------------------------------
(* Rendering of sizes and durations *)

IsDigit(c) == \E d \in 0..9 : DigitChar(d) = c
DigitVal(c) == CHOOSE d \in 0..9 : DigitChar(d) = c

\* the text is a decimal number without sign or leading zeros
IsNumber(text) ==
    /\ text # <<>>
    /\ \A i \in 1..Len(text) : IsDigit(text[i])
    /\ Len(text) > 1 => text[1] # "0"

\* the position of the first space of a text, 0 when it has none
FirstSpace(text) ==
    IF \E i \in 1..Len(text) : text[i] = " "
    THEN CHOOSE i \in 1..Len(text) : text[i] = " " /\ \A j \in 1..(i - 1) : text[j] # " "
    ELSE 0

NumberPart(text) == SubSeq(text, 1, FirstSpace(text) - 1)
UnitPart(text) == SubSeq(text, FirstSpace(text) + 1, Len(text))

\* the value of a decimal number: a natural, or the base-1024 digits of one
RECURSIVE ParseNat(_)
ParseNat(text) ==
    IF text = <<>> THEN 0
    ELSE 10 * ParseNat(SubSeq(text, 1, Len(text) - 1)) + DigitVal(text[Len(text)])

\* size * 10 + carry
RECURSIVE LimbsTimes10Plus(_, _)
LimbsTimes10Plus(size, carry) ==
    IF size = <<>> THEN Limbs(carry)
    ELSE <<(Head(size) * 10 + carry) % 1024>>
         \o LimbsTimes10Plus(Tail(size), (Head(size) * 10 + carry) \div 1024)

RECURSIVE ParseLimbs(_)
ParseLimbs(text) ==
    IF text = <<>> THEN <<>>
    ELSE LimbsTimes10Plus(ParseLimbs(SubSeq(text, 1, Len(text) - 1)),
                          DigitVal(text[Len(text)]))

SizeUnits == <<"B", "k", "M", "G", "T">>
TimeUnits == << <<"s", "e", "c", "s">>, <<"m", "i", "n", "s">>,
                <<"h", "o", "u", "r", "s">>, <<"d", "a", "y", "s">>,
                <<"w", "e", "e", "k", "s">> >>
\* seconds per unit, and the divisor that leads from a unit to the next
TimeMultipliers == <<1, 60, 3600, 86400, 604800>>
TimeDivisors == <<60, 60, 24, 7>>

\* text renders the byte size exactly, in the largest unit that divides it
SizeRendered(text, size) ==
    IF size = <<>> THEN text = <<"0">>
    ELSE \E u \in 1..Len(SizeUnits) :
            /\ FirstSpace(text) > 0
            /\ UnitPart(text) = <<SizeUnits[u]>>
            /\ IsNumber(NumberPart(text))
            /\ [i \in 1..(u - 1) |-> 0] \o ParseLimbs(NumberPart(text)) = size
            /\ u = Len(SizeUnits) \/ Head(ParseLimbs(NumberPart(text))) # 0

\* text renders the seconds exactly, in the last unit of the chain reached by
\* exact divisions
TimeRendered(text, stamp) ==
    IF stamp = 0 THEN text = <<"0">>
    ELSE \E u \in 1..Len(TimeUnits) :
            /\ FirstSpace(text) > 0
            /\ UnitPart(text) = TimeUnits[u]
            /\ IsNumber(NumberPart(text))
            /\ ParseNat(NumberPart(text)) * TimeMultipliers[u] = stamp
            /\ u = Len(TimeUnits) \/ ParseNat(NumberPart(text)) % TimeDivisors[u] # 0

MsecsRendered(text, stamp_msecs) ==
    IF stamp_msecs % 1000 = 0 THEN TimeRendered(text, stamp_msecs \div 1000)
    ELSE /\ FirstSpace(text) > 0
         /\ UnitPart(text) = <<"m", "s">>
         /\ IsNumber(NumberPart(text))
         /\ ParseNat(NumberPart(text)) = stamp_msecs

\* C11: byte sizes and durations are rendered exactly and in the largest
\* exactly-dividing unit: 0 as "0"; otherwise the rendered integer times the
\* unit's multiplier is the input and the next division of the chain
\* (B,k,M,G,T by 1024; secs,mins,hours,days,weeks by 60,60,24,7) would not
\* be exact or the chain has ended.  Milliseconds that are a multiple of 1000
\* are rendered as the seconds they make, others as "<value> ms".
C11_RenderingExact ==
    tout.done =>
        /\ tin.type = "SET_SIZE" => SizeRendered(tout.r.str, tin.value.l)
        /\ tin.type = "SET_TIME" => TimeRendered(tout.r.str, tin.value.n)
        /\ tin.type = "SET_TIME_MSECS" => MsecsRendered(tout.r.str, tin.value.n)

\* 1024^5 bytes have been rendered: four exact divisions reach T, where the
\* chain ends although the fifth division would be exact too
C11_Witness ==
    /\ tout.done
    /\ tin.type = "SET_SIZE"
    /\ tin.value.l = <<0, 0, 0, 0, 0, 1>>
    /\ tout.r.str = <<"1", "0", "2", "4", " ", "T">>

-----------------------------------------------------------------------------
(* Multimaps *)

\* the created multimap fields of the root the call exported, as key and array
RootMaps(call) ==
    { <<RootDefines(call)[f].key, FieldValue(call, f).l>>
      : f \in { g \in 1..Len(RootDefines(call)) :
                   /\ RootDefines(call)[g].type = "SET_STRLIST"
                   /\ FieldValue(call, g).created } }

\* the announcements of key in the entries out
Announcements(out, key) ==
    { k \in 1..Len(out) : out[k].key = key /\ out[k].type = "KEY_LIST" }

\* the multimap the walk came to emitted its announcement and pairs at its place
MapEmitted(out, m) ==
    /\ Len(out) >= m.before + 1 + Len(m.strings) \div 2
    /\ Triple(out[m.before + 1]) = <<m.key, <<>>, "KEY_LIST">>
    /\ \A j \in 1..(Len(m.strings) \div 2) :
           Triple(out[m.before + 1 + j])
               = <<m.key \o <<SETTINGS_SEPARATOR>> \o m.strings[2 * j - 1],
                   m.strings[2 * j], "NORMAL">>

\* the multimaps the calls so far came to, all on the one context
AllMaps ==
    UNION { { <<i, k>> : k \in 1..Len(calls[i].maps) } : i \in 1..Len(calls) }

\* C12: a created multimap field emits, under every scope, one KEY_LIST
\* announcement with an empty value for its fully-prefixed key, immediately
\* followed by one NORMAL entry per stored pair in stored order, and no
\* generic leaf entry; with DEDUPLICATE_KEYS a later multimap of the same key
\* emits neither announcement nor pairs, so both appear once in total.
C12_MultimapOnce ==
    /\ \A i \in 1..Len(calls) :
           (calls[i].ret = 0 /\ ~calls[i].panic) =>
               LET out == calls[i].out
                   maps == calls[i].maps
               IN  \* every created multimap of the root is come to
                   /\ \A rm \in RootMaps(calls[i]) :
                          \E k \in 1..Len(maps) :
                              maps[k].key = rm[1] /\ maps[k].strings = rm[2]
                   /\ \A k \in 1..Len(maps) :
                          /\ ~maps[k].known => MapEmitted(out, maps[k])
                          /\ maps[k].known => "DEDUPLICATE_KEYS" \in calls[i].flags
                          \* nothing but announcements under the field's own key
                          /\ \A j \in 1..Len(out) :
                                 out[j].key = maps[k].key => out[j].type = "KEY_LIST"
                          /\ Cardinality(Announcements(out, maps[k].key))
                                 = Cardinality({ j \in 1..Len(maps) :
                                        maps[j].key = maps[k].key /\ ~maps[j].known })
                   \* the pairs are those of the multimaps that were not known
                   /\ Cardinality({ j \in 1..Len(out) : out[j].site = "pair" })
                          = SumCounts([k \in 1..Len(maps) |->
                                [count |-> IF maps[k].known THEN 0
                                           ELSE Len(maps[k].strings) \div 2]])
    /\ Dedup(calls) =>
           \A a \in AllMaps :
               LET key == calls[a[1]].maps[a[2]].key
               IN  \* known exactly when a multimap of the key came earlier
                   /\ calls[a[1]].maps[a[2]].known
                          <=> \E b \in AllMaps :
                                  /\ calls[b[1]].maps[b[2]].key = key
                                  /\ b[1] < a[1] \/ (b[1] = a[1] /\ b[2] < a[2])
                   /\ SumCounts([i \in 1..Len(calls) |->
                          [count |-> Cardinality(Announcements(calls[i].out, key))]]) = 1

\* with DEDUPLICATE_KEYS under scope CHANGED two roots with a created
\* multimap of the same key were exported: the first emitted its announcement
\* and its two pairs, the second nothing of the key
C12_Witness ==
    /\ Len(calls) = 2
    /\ Dedup(calls)
    /\ calls[1].scope = "CHANGED"
    /\ calls[1].parser_idx = 1 /\ calls[2].parser_idx = 2
    /\ calls[1].ret = 0 /\ calls[2].ret = 0
    /\ \E k \in 1..Len(calls[1].maps) :
           /\ calls[1].maps[k].key = <<"p">>
           /\ Len(calls[1].maps[k].strings) = 4
           /\ ~calls[1].maps[k].known
           /\ MapEmitted(calls[1].out, calls[1].maps[k])
    /\ \E k \in 1..Len(calls[2].maps) :
           /\ calls[2].maps[k].key = <<"p">>
           /\ calls[2].maps[k].known
    /\ \A j \in 1..Len(calls[2].out) :
           SubSeq(calls[2].out[j].key, 1, 1) # <<"p">>

-----------------------------------------------------------------------------
(* Nested lists *)

RECURSIVE SplitOn(_, _, _, _)
SplitOn(text, sep, i, cur) ==
    IF i > Len(text) THEN <<cur>>
    ELSE IF text[i] = sep THEN <<cur>> \o SplitOn(text, sep, i + 1, <<>>)
    ELSE SplitOn(text, sep, i + 1, Append(cur, text[i]))

\* text is the identifier of the i-th element of the list field of section
\* record s: the escaped name of an element of a unique list that has a
\* non-empty name, the running index otherwise
IsIdent(text, s, i) ==
    LET name == IF s.def.type = "SET_DEFLIST_UNIQUE"
                THEN s.children[i][InfoOf(s.def.list_info).type_offset1].s
                ELSE NULL
    IN  IF name # NULL /\ name # <<>>
        THEN text = settings_section_escape(name)
        ELSE IsNumber(text) /\ ParseNat(text) = s.section_idx + i - 1

HasPrefix(key, prefix) ==
    Len(key) >= Len(prefix) /\ SubSeq(key, 1, Len(prefix)) = prefix

\* the LIST entry of the list field of section record s is at its place in out
ListEntryEmitted(out, s) ==
    /\ Len(out) > s.before
    /\ out[s.before + 1].key = s.key
    /\ out[s.before + 1].type = "LIST"
    /\ Len(SplitOn(out[s.before + 1].value, " ", 1, <<>>)) = Len(s.children)
    /\ \A i \in 1..Len(s.children) :
           IsIdent(SplitOn(out[s.before + 1].value, " ", 1, <<>>)[i], s, i)

\* every element of the list field of s was walked after the field's own
\* place, and each of its entries has the prefix <key><sep><identifier><sep>
ElementsPrefixed(call, s) ==
    /\ \A i \in 1..Len(s.children) :
           \E e \in 1..Len(call.elements) :
               call.elements[e].key = s.key /\ call.elements[e].i = i
    /\ \A e \in 1..Len(call.elements) :
           call.elements[e].key = s.key =>
               /\ call.elements[e].from >= s.before
               /\ \A k \in (call.elements[e].from + 1)..call.elements[e].to :
                      \E n \in 1..Len(call.out[k].key) :
                          /\ IsIdent(SubSeq(call.out[k].key, Len(s.key) + 2,
                                            Len(s.key) + 1 + n), s, call.elements[e].i)
                          /\ HasPrefix(call.out[k].key,
                                       s.key \o <<SETTINGS_SEPARATOR>>
                                       \o SubSeq(call.out[k].key, Len(s.key) + 2,
                                                 Len(s.key) + 1 + n)
                                       \o <<SETTINGS_SEPARATOR>>)

\* the elements' entries carry the identifiers the LIST entry lists
SameIdentifiers(call, s) ==
    \A e \in 1..Len(call.elements) :
        call.elements[e].key = s.key =>
            \A k \in (call.elements[e].from + 1)..call.elements[e].to :
                /\ k > s.before + 1
                /\ HasPrefix(call.out[k].key,
                             s.key \o <<SETTINGS_SEPARATOR>>
                             \o SplitOn(call.out[s.before + 1].value, " ", 1, <<>>)
                                    [call.elements[e].i]
                             \o <<SETTINGS_SEPARATOR>>)

PrefixRestored ==
    (op = "parser" /\ ~crashed) => ctx.prefix = <<>>

\* C13 as claimed: for every nested-list field with at least one element a
\* LIST entry whose value is the space-joined identifiers of its elements,
\* in order, is emitted before any entry of the elements, every entry of the
\* i-th element has the prefix <parent prefix><field><sep><i-th
\* identifier><sep>, and the prefix is empty again when
\* config_export_parser returns.
C13_ListThenElements ==
    /\ PrefixRestored
    /\ \A c \in 1..Len(calls) :
           (calls[c].ret = 0 /\ ~calls[c].panic) =>
               \A k \in 1..Len(calls[c].sections) :
                   Len(calls[c].sections[k].children) > 0 =>
                       /\ ListEntryEmitted(calls[c].out, calls[c].sections[k])
                       /\ ElementsPrefixed(calls[c], calls[c].sections[k])
                       /\ SameIdentifiers(calls[c], calls[c].sections[k])

\* C13 as amended: the same, except that with DEDUPLICATE_KEYS a list field
\* whose key is already in the dedup set emits no LIST entry, while its
\* elements are exported all the same, each under its prefix.
C13_ListUnlessKnownThenElements ==
    /\ PrefixRestored
    /\ \A c \in 1..Len(calls) :
           (calls[c].ret = 0 /\ ~calls[c].panic) =>
               \A k \in 1..Len(calls[c].sections) :
                   Len(calls[c].sections[k].children) > 0 =>
                       /\ ElementsPrefixed(calls[c], calls[c].sections[k])
                       /\ ~calls[c].sections[k].known =>
                              /\ ListEntryEmitted(calls[c].out, calls[c].sections[k])
                              /\ SameIdentifiers(calls[c], calls[c].sections[k])
                       /\ calls[c].sections[k].known =>
                              /\ "DEDUPLICATE_KEYS" \in calls[c].flags
                              /\ calls[c].sections[k].key \notin Keys(calls[c].out)
                              /\ calls[c].sections[k].key \in calls[c].keys_before

\* a root was exported whose unique list holds an element with a name that
\* is escaped and one without a name, and whose indexed list holds an
\* element with a list of its own
C13_Witness ==
    /\ op = "parser"
    /\ ~crashed
    /\ ctx.prefix = <<>>
    /\ \E c \in 1..Len(calls) :
           /\ calls[c].ret = 0
           /\ \E k \in 1..Len(calls[c].sections) :
                  /\ calls[c].sections[k].def.type = "SET_DEFLIST_UNIQUE"
                  /\ Len(calls[c].sections[k].children) = MaxSvc
                  /\ ListEntryEmitted(calls[c].out, calls[c].sections[k])
                  /\ SubSeq(calls[c].out[calls[c].sections[k].before + 1].value, 1, 4)
                         = <<"b", "\\", "_", "\\">>
           /\ \E k \in 1..Len(calls[c].sections) :
                  /\ Len(calls[c].sections[k].key) > 2
                  /\ Len(calls[c].sections[k].children) > 0
                  /\ ListEntryEmitted(calls[c].out, calls[c].sections[k])
                  /\ SameIdentifiers(calls[c], calls[c].sections[k])
           /\ Len(calls[c].elements) = MaxSvc + MaxItems + 1

=============================================================================
